---- MODULE Spec2Model ----
(***************************************************************************)
(* QuarkW4A4MXFP4: the MXFP4 weight scheme of                              *)
(* vllm/model_executor/layers/quantization/quark/schemes/quark_w4a4_mxfp4  *)
(* as a state machine: module import, __init__, create_weights, the        *)
(* external weight loader, process_weights_after_loading, apply_weights.   *)
(***************************************************************************)
EXTENDS Integers, Sequences, FiniteSets, TLC

VARIABLES
    env,      \* the process environment: platform, env vars, installed packages
    globals,  \* the module-level names bound by the import block (lines 17-31)
    scheme,   \* the QuarkW4A4MXFP4 instance: emulate, weight_quantizer
    layer,    \* the torch.nn.Module: logical_widths, weight, weight_scale
    args,     \* the arguments create_weights was called with
    pc,       \* position in the scheme's life cycle
    err,      \* the exception that ended the life cycle, "none" if none
    calls,    \* number of completed apply_weights calls
    last      \* what the most recent apply_weights call did

vars == <<env, globals, scheme, layer, args, pc, err, calls, last>>

-----------------------------------------------------------------------------
(* Bounds of the model *)

\* batch sizes (x.shape[0]) handed to apply_weights: the multiples of 32 up
\* to 32 * MaxBatchTiles and their two neighbours
MaxBatchTiles == 9
\* number of apply_weights calls followed in one behaviour
MaxCalls == 2
\* weight-scale shapes of the layout specification: rows 32*k, cols 8*k
MaxRowTiles == 3
MaxColTiles == 8

(* Program constants *)

\* OCP_MX_BLOCK_SIZE, imported from mxfp4_utils
OCP_MX_BLOCK_SIZE == 32
\* batch size above which the asm GEMM is taken
ASM_M_THRESHOLD == 128
\* row alignment of the asm GEMM's output buffer
ASM_ROW_ALIGN == 256
\* batch size from which the activation scales are shuffled
SHUFFLE_M_MIN == 32

-----------------------------------------------------------------------------
(* The environment *)

\* the sub-modules of the aiter package the import block asks for
AiterModules == {"triton.gemm_afp4wfp4", "triton.quant", "gemm_a4w4_asm", "utility.fp4_utils"}

Envs ==
    [supports_mx : BOOLEAN,          \* current_platform.supports_mx()
     USE_ASM     : BOOLEAN,          \* VLLM_TRITON_FP4_GEMM_USE_ASM == "1"
     EMU_MEM_OPT : BOOLEAN,          \* VLLM_QUARK_EMU_MEM_OPT == "1"
     aiter       : SUBSET AiterModules,
     quark       : BOOLEAN]          \* amd-quark importable

FlagValue(b) == IF b THEN "True" ELSE "False"

-----------------------------------------------------------------------------
(* Module import, lines 17-31.  A name is "undefined" (never bound),       *)
(* "None" or "bound"; a flag is "undefined", "True" or "False".            *)

NoGlobals ==
    [gemm_afp4wfp4                    |-> "undefined",
     gemm_afp4wfp4_preshuffled_scales |-> "undefined",
     dynamic_mxfp4_quant              |-> "undefined",
     VLLM_TRITON_FP4_GEMM_USE_ASM     |-> "undefined",
     gemm_a4w4_asm                    |-> "undefined",
     dynamic_mxfp4_quant_asm          |-> "undefined",
     VLLM_QUARK_EMU_MEM_OPT           |-> "undefined"]

\* the except clause, line 31
ExceptImportError(g) ==
    [g EXCEPT !.dynamic_mxfp4_quant = "None", !.gemm_afp4wfp4 = "None"]

\* A variant that guards the asm imports by a try of their own: a failure
\* there leaves the asm names unbound and the import block goes on.
ModuleImportLenientAsm(e) ==
    LET g0 == NoGlobals
    IN  IF "triton.gemm_afp4wfp4" \notin e.aiter THEN ExceptImportError(g0)
        ELSE LET g1 == [g0 EXCEPT !.gemm_afp4wfp4 = "bound",
                                  !.gemm_afp4wfp4_preshuffled_scales = "bound"]
        IN  IF "triton.quant" \notin e.aiter THEN ExceptImportError(g1)
        ELSE LET g2 == [g1 EXCEPT !.dynamic_mxfp4_quant = "bound",
                                  !.VLLM_TRITON_FP4_GEMM_USE_ASM = FlagValue(e.USE_ASM)]
                 g3 == IF e.USE_ASM /\ {"gemm_a4w4_asm", "utility.fp4_utils"} \subseteq e.aiter
                       THEN [g2 EXCEPT !.gemm_a4w4_asm = "bound",
                                       !.dynamic_mxfp4_quant_asm = "bound"]
                       ELSE g2
        IN  [g3 EXCEPT !.VLLM_QUARK_EMU_MEM_OPT = FlagValue(e.EMU_MEM_OPT)]

\* The try block statement by statement; the first ImportError jumps to the
\* except clause and leaves every later name unbound.
ModuleImport(e) ==
    LET g0 == NoGlobals
    IN  IF "triton.gemm_afp4wfp4" \notin e.aiter THEN ExceptImportError(g0)
        ELSE LET g1 == [g0 EXCEPT !.gemm_afp4wfp4 = "bound",
                                  !.gemm_afp4wfp4_preshuffled_scales = "bound"]
        IN  IF "triton.quant" \notin e.aiter THEN ExceptImportError(g1)
        ELSE LET g2 == [g1 EXCEPT !.dynamic_mxfp4_quant = "bound",
                                  !.VLLM_TRITON_FP4_GEMM_USE_ASM = FlagValue(e.USE_ASM)]
        IN  IF ~e.USE_ASM
            THEN [g2 EXCEPT !.VLLM_QUARK_EMU_MEM_OPT = FlagValue(e.EMU_MEM_OPT)]
        ELSE IF "gemm_a4w4_asm" \notin e.aiter THEN ExceptImportError(g2)
        ELSE LET g3 == [g2 EXCEPT !.gemm_a4w4_asm = "bound"]
        IN  IF "utility.fp4_utils" \notin e.aiter THEN ExceptImportError(g3)
        ELSE [g3 EXCEPT !.dynamic_mxfp4_quant_asm = "bound",
                        !.VLLM_QUARK_EMU_MEM_OPT = FlagValue(e.EMU_MEM_OPT)]

-----------------------------------------------------------------------------
(* State after the module is imported, before any scheme is constructed *)

\* A weight is "unregistered", "empty" (torch.empty), "packed" (two 4-bit
\* codes a byte) or "dequantized"; dequantized counts the dequantizations
\* applied to it since loading.  A scale's data lists, position by position
\* in row-major order, the offset in the loaded scale the byte came from.
NoLayer ==
    [logical_widths |-> <<>>,
     weight         |-> [shape |-> <<0, 0>>, form |-> "unregistered", dequantized |-> 0],
     weight_scale   |-> [shape |-> <<0, 0>>, form |-> "unregistered", data |-> <<>>]]

NoCall ==
    [path |-> "none", M |-> 0, x_scales |-> FALSE, callees |-> <<>>,
     shuffle |-> FALSE, y_alloc_rows |-> 0, out_shape |-> <<0, 0>>,
     weight_dequantized |-> 0]

NoArgs == [output_partition_sizes |-> <<>>, input_size_per_partition |-> 0]

NoScheme == [emulate |-> "unset", weight_quantizer |-> "unset"]

\* no exception raised; otherwise the exception's type and the raising method
NoError == [exc |-> "none", at |-> "none"]

Raised(exc, at) == [exc |-> exc, at |-> at]

Init ==
    /\ env \in Envs
    /\ globals = ModuleImport(env)
    /\ scheme = NoScheme
    /\ layer = NoLayer
    /\ args = NoArgs
    /\ pc = "imported"
    /\ err = NoError
    /\ calls = 0
    /\ last = NoCall

-----------------------------------------------------------------------------
(* __init__, lines 38-51 *)

\* line 44: `not supports_mx() or VLLM_QUARK_EMU_MEM_OPT`; `or` evaluates its
\* right operand, and so looks the flag up, only when the left one is false.
\* The result is "True", "False", or "NameError" when the flag is unbound.
EmulateExpr(e, g) ==
    IF ~e.supports_mx THEN "True"
    ELSE IF g.VLLM_QUARK_EMU_MEM_OPT = "undefined" THEN "NameError"
    ELSE g.VLLM_QUARK_EMU_MEM_OPT

\* lines 45-46
KernelsMissing(g) ==
    g.dynamic_mxfp4_quant = "None" \/ g.gemm_afp4wfp4 = "None"

Construct ==
    /\ pc = "imported"
    /\ LET em == EmulateExpr(env, globals)
       IN  IF em = "NameError"
           THEN /\ err' = Raised("NameError", "__init__")
                /\ pc' = "failed"
                /\ scheme' = scheme
           ELSE IF em = "False" /\ KernelsMissing(globals)
           THEN /\ err' = Raised("NotImplementedError", "__init__")
                /\ pc' = "failed"
                /\ scheme' = [scheme EXCEPT !.emulate = em]
           ELSE /\ err' = err
                /\ pc' = "constructed"
                /\ scheme' = [scheme EXCEPT !.emulate = em]
    /\ UNCHANGED <<env, globals, layer, args, calls, last>>

-----------------------------------------------------------------------------
(* Tensors: shapes, view, permute().contiguous() *)

RECURSIVE Prod(_)
Prod(dims) == IF dims = <<>> THEN 1 ELSE Head(dims) * Prod(Tail(dims))

RECURSIVE Sum(_)
Sum(ns) == IF ns = <<>> THEN 0 ELSE Head(ns) + Sum(Tail(ns))

Min(a, b) == IF a <= b THEN a ELSE b

\* row-major stride of axis k (1-based) of a contiguous tensor of shape dims
Stride(dims, k) == Prod(SubSeq(dims, k + 1, Len(dims)))

\* Tensor.view on a contiguous tensor succeeds exactly when the element
\* counts agree; it raises RuntimeError otherwise
ViewOk(shape, dims) == Prod(dims) = Prod(shape)

\* t.permute(perm).contiguous() on row-major data seen with shape dims; perm
\* is 0-based as in the source.  Element g of the result, at coordinates j in
\* the permuted shape, is the element of t whose coordinate on axis perm[k]
\* is j[k].
PermuteContiguous(data, dims, perm) ==
    LET n       == Len(dims)
        newdims == [k \in 1..n |-> dims[perm[k] + 1]]
        nstr    == [k \in 1..n |-> Stride(newdims, k)]
        ostr    == [k \in 1..n |-> Stride(dims, perm[k] + 1)]
        RECURSIVE Offset(_, _)
        Offset(g, k) ==
            IF k > n THEN 0
            ELSE ((g \div nstr[k]) % newdims[k]) * ostr[k] + Offset(g, k + 1)
    IN  [g \in 1..Len(data) |-> data[Offset(g - 1, 1) + 1]]

\* lines 105-106: the 7-axis view of an (sm, sn) scale
ShuffleView(sm, sn) == <<sm \div 32, 2, 16, sn \div 8, 2, 4, 1>>

\* the permutation with two axes exchanged: (0, 3, 5, 2, 1, 4, 6)
ShufflePermSwapped == <<0, 3, 5, 2, 1, 4, 6>>

\* lines 107-108
ShufflePerm == <<0, 3, 5, 2, 4, 1, 6>>

\* lines 103-109: view, permute, contiguous, view back to (sm, sn).  The
\* caller has checked ViewOk(ws.shape, ShuffleView(sm, sn)).
ShuffleScale(ws) ==
    LET sm == ws.shape[1]
        sn == ws.shape[2]
    IN  [ws EXCEPT !.data = PermuteContiguous(ws.data, ShuffleView(sm, sn), ShufflePerm)]

\* lines 113-115: weight_scale.data.T.contiguous()
TransposeScale(ws) ==
    [ws EXCEPT !.shape = <<ws.shape[2], ws.shape[1]>>,
               !.data  = PermuteContiguous(ws.data, ws.shape, <<1, 0>>)]

-----------------------------------------------------------------------------
(* create_weights, lines 117-151, and the weight loader it registers *)

\* the layers of the main specification: output partitions and input sizes
PartitionChoices == {<<32>>, <<16, 16>>, <<24>>}

InputSizes == {OCP_MX_BLOCK_SIZE + 1, 48, 2 * OCP_MX_BLOCK_SIZE, 8 * OCP_MX_BLOCK_SIZE}

\* the layers of the layout specification: scale shapes (32*r, 8*c)
TilePartitionChoices == {<<32 * r>> : r \in 1..MaxRowTiles}

TileInputSizes == {OCP_MX_BLOCK_SIZE * 8 * c : c \in 1..MaxColTiles}

\* no divisibility check: both shapes are floor divisions
CreateWeightsOn(parts, isize) ==
    /\ pc = "constructed"
    /\ LET output_size_per_partition == Sum(parts)
       IN  layer' =
             [logical_widths |-> parts,
              weight |-> [shape |-> <<output_size_per_partition, isize \div 2>>,
                          form |-> "empty", dequantized |-> 0],
              weight_scale |-> [shape |-> <<output_size_per_partition,
                                            isize \div OCP_MX_BLOCK_SIZE>>,
                                form |-> "empty", data |-> <<>>]]
    /\ args' = [output_partition_sizes |-> parts, input_size_per_partition |-> isize]
    /\ pc' = "created"
    /\ UNCHANGED <<env, globals, scheme, err, calls, last>>

create_weights ==
    \E parts \in PartitionChoices, isize \in InputSizes : CreateWeightsOn(parts, isize)

create_weights_tiled ==
    \E parts \in TilePartitionChoices, isize \in TileInputSizes : CreateWeightsOn(parts, isize)

\* weight_loader (lines 136, 149) fills both parameters from the checkpoint
weight_loader ==
    /\ pc = "created"
    /\ layer' = [layer EXCEPT
                   !.weight.form = "packed",
                   !.weight_scale.form = "loaded",
                   !.weight_scale.data = [i \in 1..Prod(layer.weight_scale.shape) |-> i - 1]]
    /\ pc' = "loaded"
    /\ UNCHANGED <<env, globals, scheme, args, err, calls, last>>

-----------------------------------------------------------------------------
(* process_weights_after_loading, lines 57-115 *)

\* weight_quantizer(w) of amd-quark and dequant_mxfp4(w, scale, dtype) of
\* mxfp4_utils: every byte of w gives two values
Dequantize(w) ==
    [shape |-> <<w.shape[1], 2 * w.shape[2]>>, form |-> "dequantized",
     dequantized |-> w.dequantized + 1]

Outcome(e, s, l) == [err |-> e, scheme |-> s, layer |-> l]

\* A variant that keeps the quantizer on the scheme in both branches.
ProcessEmulateKeepQuantizer(e, g, s, l) ==
    IF ~e.quark
    THEN Outcome(Raised("ImportError", "process_weights_after_loading"), s, l)
    ELSE IF g.VLLM_QUARK_EMU_MEM_OPT = "undefined"
    THEN Outcome(Raised("NameError", "process_weights_after_loading"), s, l)
    ELSE IF g.VLLM_QUARK_EMU_MEM_OPT = "False"
    THEN Outcome(NoError, [s EXCEPT !.weight_quantizer = "bound"],
                 [l EXCEPT !.weight = Dequantize(l.weight)])
    ELSE Outcome(NoError, [s EXCEPT !.weight_quantizer = "bound"], l)

\* lines 61-100: the quark import (64-72), the quantizer bound to the raw
\* scale (74-86), then the flag lookup of line 89
ProcessEmulate(e, g, s, l) ==
    IF ~e.quark
    THEN Outcome(Raised("ImportError", "process_weights_after_loading"), s, l)
    ELSE IF g.VLLM_QUARK_EMU_MEM_OPT = "undefined"
    THEN Outcome(Raised("NameError", "process_weights_after_loading"), s, l)
    ELSE IF g.VLLM_QUARK_EMU_MEM_OPT = "False"
    THEN Outcome(NoError, s, [l EXCEPT !.weight = Dequantize(l.weight)])
    ELSE Outcome(NoError, [s EXCEPT !.weight_quantizer = "bound"], l)

\* lines 101-115
ProcessNative(g, s, l) ==
    IF g.VLLM_TRITON_FP4_GEMM_USE_ASM = "undefined"
    THEN Outcome(Raised("NameError", "process_weights_after_loading"), s, l)
    ELSE IF g.VLLM_TRITON_FP4_GEMM_USE_ASM = "True"
    THEN IF ViewOk(l.weight_scale.shape,
                   ShuffleView(l.weight_scale.shape[1], l.weight_scale.shape[2]))
         THEN Outcome(NoError, s, [l EXCEPT !.weight_scale = ShuffleScale(l.weight_scale)])
         ELSE Outcome(Raised("RuntimeError", "process_weights_after_loading"), s, l)
    ELSE Outcome(NoError, s, [l EXCEPT !.weight_scale = TransposeScale(l.weight_scale)])

process_weights_after_loading ==
    /\ pc = "loaded"
    /\ LET r == IF scheme.emulate = "True"
                THEN ProcessEmulate(env, globals, scheme, layer)
                ELSE ProcessNative(globals, scheme, layer)
       IN  /\ err' = r.err
           /\ scheme' = r.scheme
           /\ layer' = r.layer
           /\ pc' = IF r.err = NoError THEN "ready" ELSE "failed"
    /\ UNCHANGED <<env, globals, args, calls, last>>

-----------------------------------------------------------------------------
(* apply_weights, lines 153-222 *)

\* the kernels of the aiter package
NativeKernels ==
    {"dynamic_mxfp4_quant", "gemm_afp4wfp4", "gemm_afp4wfp4_preshuffled_scales",
     "dynamic_mxfp4_quant_asm", "gemm_a4w4_asm"}

GemmKernels == {"gemm_afp4wfp4", "gemm_afp4wfp4_preshuffled_scales", "gemm_a4w4_asm"}

\* Calling the module-level names in order: an unbound name raises
\* NameError, a None raises TypeError, and the later names are not reached.
RECURSIVE CallInOrder(_, _, _)
CallInOrder(g, names, done) ==
    IF names = <<>> THEN [err |-> NoError, callees |-> done]
    ELSE IF g[Head(names)] = "undefined"
    THEN [err |-> Raised("NameError", "apply_weights"), callees |-> done]
    ELSE IF g[Head(names)] = "None"
    THEN [err |-> Raised("TypeError", "apply_weights"), callees |-> done]
    ELSE CallInOrder(g, Tail(names), Append(done, Head(names)))

\* the threshold taken inclusively
UseAsmGemmInclusive(M) == M >= ASM_M_THRESHOLD

\* line 171: M > 128
UseAsmGemm(M) == M > ASM_M_THRESHOLD

\* the rounding with one too many added: (M + 256) // 256 * 256
PaddedRowsOneMore(M) == ((M + ASM_ROW_ALIGN) \div ASM_ROW_ALIGN) * ASM_ROW_ALIGN

\* line 178: (M + 255) // 256 * 256
PaddedRows(M) == ((M + (ASM_ROW_ALIGN - 1)) \div ASM_ROW_ALIGN) * ASM_ROW_ALIGN

\* lines 159-168.  dequant_mxfp4 is applied to layer.weight as it stands,
\* whatever process_weights_after_loading left there; weight_quantizer is
\* not read.
ApplyEmulate(l, M, xs) ==
    LET dq_w == Dequantize(l.weight)
    IN  [err  |-> NoError,
         call |-> [path |-> "emulate", M |-> M, x_scales |-> xs,
                   callees |-> <<"dequant_mxfp4", "quant_dequant_mxfp4", "F.linear">>,
                   shuffle |-> FALSE, y_alloc_rows |-> 0,
                   out_shape |-> <<M, dq_w.shape[1]>>,
                   weight_dequantized |-> dq_w.dequantized]]

\* lines 170-222.  x_s, the activation scale, comes from the quantize kernel
\* or from the caller; its reshape (lines 194-196) touches no state of the
\* scheme or the layer.
ApplyNative(g, l, M, xs) ==
    LET call(path, names) ==
            LET r == CallInOrder(g, names, <<>>)
            IN  [err  |-> r.err,
                 call |-> [path |-> path, M |-> M, x_scales |-> xs,
                           callees |-> r.callees, shuffle |-> FALSE,
                           y_alloc_rows |-> 0, out_shape |-> <<0, 0>>,
                           weight_dequantized |-> 0]]
        quant(name) == IF xs THEN <<>> ELSE <<name>>
        returned(r, shuffle, rows) ==
            IF r.err # NoError
            THEN [r EXCEPT !.call.shuffle = shuffle]
            ELSE [r EXCEPT !.call.shuffle = shuffle,
                           !.call.y_alloc_rows = rows,
                           !.call.out_shape = <<Min(M, rows), l.weight.shape[1]>>]
    IN  IF g.VLLM_TRITON_FP4_GEMM_USE_ASM = "undefined"
        THEN call("none", <<"VLLM_TRITON_FP4_GEMM_USE_ASM">>)
        ELSE IF g.VLLM_TRITON_FP4_GEMM_USE_ASM = "True" /\ UseAsmGemm(M)
        THEN \* lines 172-186: y has PaddedRows(M) rows, y[:M] is returned
             returned(call("asm", quant("dynamic_mxfp4_quant_asm") \o <<"gemm_a4w4_asm">>),
                      ~xs, PaddedRows(M))
        ELSE IF g.VLLM_TRITON_FP4_GEMM_USE_ASM = "True"
        THEN \* lines 188-207: the weight scale is viewed as (smw // 32, snw * 32)
             LET smw == l.weight_scale.shape[1]
                 snw == l.weight_scale.shape[2]
                 q   == call("preshuffled", quant("dynamic_mxfp4_quant_asm"))
             IN  IF q.err # NoError THEN returned(q, FALSE, M)
                 ELSE IF ~ViewOk(l.weight_scale.shape, <<smw \div 32, snw * 32>>)
                 THEN returned([q EXCEPT !.err = Raised("RuntimeError", "apply_weights")],
                               ~xs /\ M >= SHUFFLE_M_MIN, M)
                 ELSE returned(call("preshuffled",
                                    quant("dynamic_mxfp4_quant_asm")
                                    \o <<"gemm_afp4wfp4_preshuffled_scales">>),
                               ~xs /\ M >= SHUFFLE_M_MIN, M)
        ELSE \* lines 209-222
             returned(call("default", quant("dynamic_mxfp4_quant") \o <<"gemm_afp4wfp4">>),
                      FALSE, M)

BatchSizes ==
    {k * SHUFFLE_M_MIN + d : k \in 0..MaxBatchTiles, d \in {-1, 0, 1}} \ {-1, 0}

apply_weights ==
    /\ pc = "ready"
    /\ calls < MaxCalls
    /\ \E M \in BatchSizes, xs \in BOOLEAN :
         LET r == IF scheme.emulate = "True"
                  THEN ApplyEmulate(layer, M, xs)
                  ELSE ApplyNative(globals, layer, M, xs)
         IN  /\ last' = r.call
             /\ err' = r.err
             /\ pc' = IF r.err = NoError THEN "ready" ELSE "failed"
             /\ calls' = IF r.err = NoError THEN calls + 1 ELSE calls
    /\ UNCHANGED <<env, globals, scheme, layer, args>>

-----------------------------------------------------------------------------
(* Specifications *)

Next ==
    \/ Construct
    \/ create_weights
    \/ weight_loader
    \/ process_weights_after_loading
    \/ apply_weights

Spec == Init /\ [][Next]_vars

\* The layout specification: a platform with native MX, the whole of aiter
\* and amd-quark installed and the memory flag unset, over the scale shapes
\* (32*r, 8*c); apply_weights is left out.
InitTiled ==
    /\ Init
    /\ env.supports_mx /\ ~env.EMU_MEM_OPT /\ env.quark
    /\ env.aiter = AiterModules

NextTiled ==
    \/ Construct
    \/ create_weights_tiled
    \/ weight_loader
    \/ process_weights_after_loading

SpecTiled == InitTiled /\ [][NextTiled]_vars
-----------------------------------------------------------------------------
(* Properties *)

\* __init__ returned an instance
Constructed == pc # "imported" /\ err.at # "__init__"

\* the combination of platform and memory flag that asks for the native path
NativeRequested == env.supports_mx /\ ~env.EMU_MEM_OPT

\* C1: at construction the mode is Native exactly when the platform supports
\* native MX and the memory flag is unset (construction may instead fail for
\* want of kernels in that combination), and in the three other combinations
\* of platform and flag the mode is Emulate.
C1_ModeSelection ==
    pc # "imported" =>
        /\ scheme.emulate = "False" => NativeRequested
        /\ NativeRequested /\ Constructed => scheme.emulate = "False"
        /\ ~NativeRequested => Constructed /\ scheme.emulate = "True"

\* C2: when the native path is requested and the import block left the
\* kernel bindings None, __init__ raises NotImplementedError and nothing else.
C2_MissingKernelsNotImplemented ==
    pc # "imported" /\ NativeRequested /\ KernelsMissing(globals)
        => err = Raised("NotImplementedError", "__init__")

\* create_weights was called
Created == args # NoArgs

\* C3: create_weights fails with InvalidShape and registers neither parameter
\* when input_size_per_partition is odd or no multiple of the block size.
C3_InvalidShapeRejected ==
    Created /\ (args.input_size_per_partition % 2 = 1
                \/ args.input_size_per_partition % OCP_MX_BLOCK_SIZE # 0)
        => /\ err.exc = "InvalidShape"
           /\ layer.weight.form = "unregistered"
           /\ layer.weight_scale.form = "unregistered"

\* layer.weight holds a dequantized weight
ResolvedWeight == layer.weight.form = "dequantized"

\* layer.weight_scale is the scale as loaded: shape and byte order untouched
RawScale ==
    /\ layer.weight_scale.form = "loaded"
    /\ layer.weight_scale.shape =
         <<Sum(args.output_partition_sizes),
           args.input_size_per_partition \div OCP_MX_BLOCK_SIZE>>
    /\ layer.weight_scale.data = [i \in 1..Prod(layer.weight_scale.shape) |-> i - 1]

\* the scheme keeps a quantizer
LazyQuantizer == scheme.weight_quantizer = "bound"

\* C4 as stated: after process_weights_after_loading, in every mode, exactly
\* one of {resolved weight, lazy quantizer with the raw scale} is present.
C4_ExactlyOneAnyMode ==
    pc = "ready" => (ResolvedWeight /\ ~LazyQuantizer) \/ (~ResolvedWeight /\ LazyQuantizer /\ RawScale)

\* C4 amended: after process_weights_after_loading in Emulate mode exactly
\* one of {resolved weight, lazy quantizer with the raw scale} is present;
\* in Native mode neither is: the weight stays packed and no quantizer is kept.
C4_ExactlyOneInEmulate ==
    pc = "ready" =>
        IF scheme.emulate = "True"
        THEN \/ ResolvedWeight /\ ~LazyQuantizer
             \/ ~ResolvedWeight /\ LazyQuantizer /\ RawScale
        ELSE ~ResolvedWeight /\ ~LazyQuantizer

C4_Witness ==
    /\ pc = "ready" /\ scheme.emulate = "True"
    /\ LazyQuantizer /\ RawScale /\ ~ResolvedWeight

\* the kernels apply_weights can reach in Native mode under the asm flag
ReachableKernels ==
    {"dynamic_mxfp4_quant", "gemm_afp4wfp4"} \cup
    (IF env.USE_ASM
     THEN {"dynamic_mxfp4_quant_asm", "gemm_a4w4_asm", "gemm_afp4wfp4_preshuffled_scales"}
     ELSE {})

Callees(call) == {call.callees[i] : i \in DOMAIN call.callees}

\* C5: in Emulate mode apply_weights calls no kernel of aiter; once a Native
\* scheme is constructed every kernel apply_weights can reach is bound; and
\* no apply_weights call fails on an unbound or None kernel.
C5_NoUnavailableKernelCall ==
    /\ scheme.emulate = "True" => Callees(last) \cap NativeKernels = {}
    /\ Constructed /\ scheme.emulate = "False"
         => \A k \in ReachableKernels : globals[k] = "bound"
    /\ ~(err.at = "apply_weights" /\ err.exc \in {"NameError", "TypeError"})

C5_Witness ==
    /\ scheme.emulate = "False" /\ calls > 0
    /\ "gemm_a4w4_asm" \in Callees(last)
    /\ globals.gemm_a4w4_asm = "bound"

\* C6: in Native mode with the asm flag set, a call with M > 128 allocates
\* the smallest multiple of 256 that is >= M rows and returns exactly M rows
\* and output_features columns.
C6_AsmPadding ==
    scheme.emulate = "False" /\ env.USE_ASM /\ last.M > ASM_M_THRESHOLD =>
        /\ err = NoError
        /\ last.y_alloc_rows % 256 = 0
        /\ last.y_alloc_rows >= last.M
        /\ last.y_alloc_rows - 256 < last.M
        /\ last.out_shape = <<last.M, Sum(args.output_partition_sizes)>>

C6_Witness ==
    /\ scheme.emulate = "False" /\ env.USE_ASM
    /\ last.M = 257 /\ last.y_alloc_rows = 512
    /\ last.out_shape[1] = 257

\* the GEMM kernels a call invoked, in order
GemmCalls(call) == SelectSeq(call.callees, LAMBDA k : k \in GemmKernels)

\* C7: every Native apply_weights call invokes exactly one GEMM kernel once:
\* the default kernel when the asm flag is unset; with the flag set the asm
\* kernel iff M > 128 and the preshuffled-scales kernel otherwise.
C7_KernelSelection ==
    scheme.emulate = "False" /\ last.M > 0 =>
        GemmCalls(last) =
            <<IF ~env.USE_ASM THEN "gemm_afp4wfp4"
              ELSE IF last.M > 128 THEN "gemm_a4w4_asm"
              ELSE "gemm_afp4wfp4_preshuffled_scales">>

C7_Witness ==
    /\ scheme.emulate = "False" /\ env.USE_ASM
    /\ last.M = 128
    /\ GemmCalls(last) = <<"gemm_afp4wfp4_preshuffled_scales">>

\* the inverse of the block shuffle: view as (rows/32, cols/8, 4, 16, 2, 2, 1),
\* permute by the inverse permutation (0, 5, 3, 1, 4, 2, 6), view as (rows, cols)
Unshuffle(ws) ==
    LET sm == ws.shape[1]
        sn == ws.shape[2]
    IN  PermuteContiguous(ws.data, <<sm \div 32, sn \div 8, 4, 16, 2, 2, 1>>,
                          <<0, 5, 3, 1, 4, 2, 6>>)

\* where the block shuffle puts the scale of row r, column c of an
\* (rows, sn) matrix, worked out from the seven axes
ShuffledOffset(r, c, sn) ==
    (r \div 32) * (32 * sn) + (c \div 8) * 256 + (c % 4) * 64
    + (r % 16) * 4 + ((c \div 4) % 2) * 2 + ((r \div 16) % 2)

\* C8: the block shuffle of process_weights_after_loading keeps the shape,
\* moves every position of the scale to a position of its own, the one the
\* seven-axis view and permutation name, and is undone by its inverse.
C8_ShuffleIsBijection ==
    pc = "ready" /\ scheme.emulate = "False" /\ env.USE_ASM =>
        LET ws == layer.weight_scale
            n  == Prod(ws.shape)
        IN  /\ ws.shape = <<Sum(args.output_partition_sizes),
                            args.input_size_per_partition \div OCP_MX_BLOCK_SIZE>>
            /\ Len(ws.data) = n
            /\ {ws.data[i] : i \in 1..n} = 0..(n - 1)
            /\ \A r \in 0..(ws.shape[1] - 1), c \in 0..(ws.shape[2] - 1) :
                 ws.data[ShuffledOffset(r, c, ws.shape[2]) + 1] = r * ws.shape[2] + c
            /\ Unshuffle(ws) = [i \in 1..n |-> i - 1]

C8_Witness ==
    /\ pc = "ready" /\ scheme.emulate = "False" /\ env.USE_ASM
    /\ layer.weight_scale.shape = <<64, 64>>
    /\ layer.weight_scale.data[2] = 1024

\* C9: in Emulate mode with the memory flag unset the weight that reaches
\* F.linear has been dequantized exactly once, by
\* process_weights_after_loading, and apply_weights dequantizes nothing;
\* with the flag set the packed weight is dequantized once in each call.
C9_DequantizedOnce ==
    scheme.emulate = "True" /\ last.path = "emulate" =>
        IF ~env.EMU_MEM_OPT
        THEN /\ last.weight_dequantized = 1
             /\ layer.weight.dequantized = 1
             /\ "dequant_mxfp4" \notin Callees(last)
        ELSE /\ last.weight_dequantized = 1
             /\ layer.weight.form = "packed"

\* C10: without native MX support, with aiter absent and amd-quark present,
\* construction selects Emulate and nothing ever raises; and the only
\* failure of the Emulate path is the ImportError for a missing amd-quark.
C10_EmulateIndependentOfAiter ==
    /\ ~env.supports_mx /\ env.aiter = {} /\ env.quark
         => /\ err = NoError
            /\ pc # "imported" => scheme.emulate = "True"
    /\ scheme.emulate = "True" /\ err # NoError
         => err.exc = "ImportError" /\ ~env.quark
====
